---- MODULE Spec2Model ----
(***************************************************************************)
(* Binary-to-decimal conversion engine of Tarmac Trace Utilities           *)
(* (lib/btod.cpp): the decimal Bigint, the memoised power_of, the          *)
(* rounding/formatting driver fp_btod and the bit-pattern decoder          *)
(* ieee_btod.                                                              *)
(*                                                                         *)
(* A Bigint is modelled by its `digits` vector: a sequence of cells,       *)
(* least significant first.  C++ index i is TLA+ index i+1.                *)
(***************************************************************************)
EXTENDS Integers, Sequences, FiniteSets, TLC

(***************************************************************************)
(* Bounds of the model.                                                    *)
(***************************************************************************)
MaxVal   == 10   \* largest value handed to the Bigint constructor
MaxExtra == 1    \* largest extradigits handed to the Bigint constructor
MaxChain == 2    \* a chain of += and *= goes on while x and y are this short
MaxLen   == 3    \* the longest operands of a single += or *=
MaxPow   == 6    \* largest exponent handed to power_of directly
MaxMant  == 20   \* largest mantissa handed to fp_btod directly
MaxExp   == 10   \* largest |power2| handed to fp_btod directly
MaxPrec  == 3    \* largest precision (significant digits) requested
MaxEbits == 4    \* widest exponent field of the formats decoded
MaxMbits == 1    \* widest mantissa field of the formats decoded

FillDigits == {0, 9}   \* the fill digits the driver uses (lines 146, 148)

VARIABLES
    ndebug,    \* the build: TRUE when NDEBUG is defined (assert compiled out)
    aborted,   \* TRUE once an assert has failed in a build that keeps asserts
    x, y,      \* two distinct Bigint objects (their digits vectors)
    powers2,   \* static map<unsigned, Bigint> powers2
    powers5,   \* static map<unsigned, Bigint> powers5
    pc,        \* the operation that ran last
    args,      \* its arguments
    ret,       \* its return value (or, for a mutator, its internal record)
    fpargs,    \* what ieee_btod handed to fp_btod (<<>> when it did not)
    pending    \* the arguments of the conversion the caller is about to make

vars == <<ndebug, aborted, x, y, powers2, powers5, pc, args, ret, fpargs, pending>>

(***************************************************************************)
(* Arithmetic helpers used to state the claims (not part of the program).  *)
(***************************************************************************)
RECURSIVE Pow(_, _)
Pow(b, n) == IF n = 0 THEN 1 ELSE b * Pow(b, n - 1)

RECURSIVE Value(_)
Value(d) == IF d = <<>> THEN 0 ELSE Head(d) + 10 * Value(Tail(d))

Max2(a, b) == IF a >= b THEN a ELSE b

(***************************************************************************)
(* class Bigint                                                            *)
(***************************************************************************)

\* The cell type: vector<unsigned char>.
UCharMod == 256

\* normalise(i): the carry loop; returns the digits and the carry that
\* assert(!carry) inspects.
RECURSIVE normaliseLoop(_, _, _)
normaliseLoop(d, i, carry) ==
    IF i < Len(d)
    THEN LET c == carry + d[i + 1]
         IN  normaliseLoop([d EXCEPT ![i + 1] = c % 10], i + 1, c \div 10)
    ELSE [digits |-> d, carry |-> carry]

normalise(d, i) == normaliseLoop(d, i, 0)

RECURSIVE contract(_)
contract(d) ==
    IF Len(d) > 0 /\ d[Len(d)] = 0
    THEN contract(SubSeq(d, 1, Len(d) - 1))
    ELSE d

expand(d, size) ==
    IF size > Len(d)
    THEN d \o [k \in 1..(size - Len(d)) |-> 0]
    ELSE d

\* sprintf(buf, "%.0llu", val): most significant digit first, no digits for 0.
RECURSIVE sprintf_llu(_)
sprintf_llu(val) ==
    IF val = 0 THEN <<>> ELSE Append(sprintf_llu(val \div 10), val % 10)

\* while (i-- > 0) digits.push_back(buf[i] - '0');
RECURSIVE pushBackwards(_, _, _)
pushBackwards(d, buf, i) ==
    IF i > 0 THEN pushBackwards(Append(d, buf[i]), buf, i - 1) ELSE d

\* Bigint(unsigned long long val, size_t extradigits = 0, int filldigit = 0)
Bigint(val, extradigits, filldigit) ==
    LET buf == sprintf_llu(val)
    IN  pushBackwards([k \in 1..extradigits |-> filldigit % UCharMod],
                      buf, Len(buf))

ndigits(d) == Len(d)

digit(d, i) == IF i >= 0 /\ i < Len(d) THEN d[i + 1] ELSE 0

\* for (i = 0; i < rhs.digits.size(); ++i) digits[i] += rhs.digits[i];
\* `wide` is the widest sum a cell was asked to hold.
RECURSIVE addLoop(_, _, _, _)
addLoop(d, rhs, i, wide) ==
    IF i < Len(rhs)
    THEN LET s == d[i + 1] + rhs[i + 1]
         IN  addLoop([d EXCEPT ![i + 1] = s % UCharMod], rhs, i + 1, Max2(wide, s))
    ELSE [digits |-> d, wide |-> wide]

\* void operator+=(const Bigint &rhs)
\* normalise(); contract();  after the digit-wise addition s.
addFinish(s, n) ==
    [digits |-> contract(n.digits),
     carry  |-> n.carry # 0,
     wide   |-> s.wide,
     stale  |-> FALSE]

addNormalise(s) == addFinish(s, normalise(s.digits, 0))

operator_add(a, rhs) ==
    addNormalise(addLoop(expand(a, Len(rhs) + 1), rhs, 0, 0))

\* for (j = 0; j < rhs.digits.size(); ++j) digits[i + j] += rhs.digits[j] * digit;
RECURSIVE mulInner(_, _, _, _, _, _)
mulInner(d, rhs, dg, i, j, wide) ==
    IF j < Len(rhs)
    THEN LET s == d[i + j + 1] + rhs[j + 1] * dg
         IN  mulInner([d EXCEPT ![i + j + 1] = s % UCharMod], rhs, dg, i, j + 1,
                      Max2(wide, s))
    ELSE [digits |-> d, wide |-> wide]

\* One pass of the outer loop at index k: read the digit, clear the cell,
\* accumulate, normalise(k).  Returns the digits and what the pass met.
mulNormalise(m, n, acc) ==
    [digits |-> n.digits,
     carry  |-> acc.carry \/ n.carry # 0,
     wide   |-> m.wide,
     stale  |-> acc.stale]

mulAccumulate(m, k, acc) == mulNormalise(m, normalise(m.digits, k), acc)

mulStep(d, rhs, k, acc) ==
    mulAccumulate(mulInner([d EXCEPT ![k + 1] = 0], rhs, d[k + 1], k, 0, acc.wide),
                  k, acc)

mulNote(r, stale) ==
    [carry |-> r.carry, wide |-> r.wide, stale |-> r.stale \/ stale]

\* for (size_t i = oldsize; i-- > 0;) { ... normalise(i); }
\* `orig` is the multiplicand as it was on entry; `stale` records a read of a
\* cell that no longer holds the original digit.
RECURSIVE mulOuter(_, _, _, _, _)

\* i--: on to the next lower index, with what the pass r met.
mulNext(r, rhs, orig, i, stale) ==
    mulOuter(r.digits, rhs, orig, i, mulNote(r, stale))

mulOuter(d, rhs, orig, i, acc) ==
    IF i > 0
    THEN mulNext(mulStep(d, rhs, i - 1, acc), rhs, orig, i - 1, d[i] # orig[i])
    ELSE [digits |-> d, carry |-> acc.carry, wide |-> acc.wide, stale |-> acc.stale]

\* contract();  at the end of operator*=.
mulFinish(r) == [r EXCEPT !.digits = contract(@)]

\* operator*= with the outer loop running from the least significant digit up.
RECURSIVE mulOuterAscending(_, _, _, _, _)

mulNextAscending(r, rhs, orig, k, stale) ==
    mulOuterAscending(r.digits, rhs, orig, k, mulNote(r, stale))

mulOuterAscending(d, rhs, orig, k, acc) ==
    IF k < Len(orig)
    THEN mulNextAscending(mulStep(d, rhs, k, acc), rhs, orig, k + 1,
                          d[k + 1] # orig[k + 1])
    ELSE [digits |-> d, carry |-> acc.carry, wide |-> acc.wide, stale |-> acc.stale]

operator_mul_ascending(a, rhs) ==
    mulFinish(mulOuterAscending(expand(a, Len(a) + Len(rhs) + 1), rhs, a, 0,
                                [carry |-> FALSE, wide |-> 0, stale |-> FALSE]))

\* void operator*=(const Bigint &rhs)
operator_mul(a, rhs) ==
    mulFinish(mulOuter(expand(a, Len(a) + Len(rhs) + 1), rhs, a, Len(a),
                       [carry |-> FALSE, wide |-> 0, stale |-> FALSE]))

(***************************************************************************)
(* Bigint objects under arbitrary sequences of operations.                 *)
(***************************************************************************)
NoMap == [k \in {} |-> <<>>]

InitBig ==
    /\ ndebug \in BOOLEAN
    /\ aborted = FALSE
    /\ x = <<>>
    /\ y = <<>>
    /\ powers2 = NoMap
    /\ powers5 = NoMap
    /\ pc = "init"
    /\ args = <<>>
    /\ ret = <<>>
    /\ fpargs = <<>>
    /\ pending = <<>>

\* Bigint x(val, extradigits, filldigit);
ConstructX ==
    /\ ~aborted
    /\ \E val \in 0..MaxVal, extradigits \in 0..MaxExtra, filldigit \in FillDigits :
         /\ x' = Bigint(val, extradigits, filldigit)
         /\ pc' = "BigintX"
         /\ args' = <<val, extradigits, filldigit>>
         /\ ret' = <<>>
    /\ UNCHANGED <<ndebug, aborted, y, powers2, powers5, fpargs, pending>>

\* Bigint y(val, extradigits, filldigit);
ConstructY ==
    /\ ~aborted
    /\ \E val \in 0..MaxVal, extradigits \in 0..MaxExtra, filldigit \in FillDigits :
         /\ y' = Bigint(val, extradigits, filldigit)
         /\ pc' = "BigintY"
         /\ args' = <<val, extradigits, filldigit>>
         /\ ret' = <<>>
    /\ UNCHANGED <<ndebug, aborted, x, powers2, powers5, fpargs, pending>>

\* x += y;   an assert that fails ends the process unless NDEBUG is defined.
AddAssign ==
    /\ ~aborted
    /\ \E r \in {operator_add(x, y)} :
           /\ x' = r.digits
           /\ aborted' = (r.carry /\ ~ndebug)
           /\ pc' = "add"
           /\ args' = <<x, y>>
           /\ ret' = r
    /\ UNCHANGED <<ndebug, y, powers2, powers5, fpargs, pending>>

\* x *= y;
MulAssign ==
    /\ ~aborted
    /\ \E r \in {operator_mul(x, y)} :
           /\ x' = r.digits
           /\ aborted' = (r.carry /\ ~ndebug)
           /\ pc' = "mul"
           /\ args' = <<x, y>>
           /\ ret' = r
    /\ UNCHANGED <<ndebug, y, powers2, powers5, fpargs, pending>>

Short == Len(x) <= MaxChain /\ Len(y) <= MaxChain

NextBig ==
    \/ ConstructX
    \/ ConstructY
    \/ (Short /\ AddAssign)
    \/ (Short /\ MulAssign)

SpecBig == InitBig /\ [][NextBig]_vars

(***************************************************************************)
(* One += or *= on a pair of well-formed operands.                         *)
(***************************************************************************)
Digit == 0..9

\* Digits in 0..9, no most significant zero, zero is the empty vector.
WellFormed(d) ==
    /\ \A i \in 1..Len(d) : d[i] \in Digit
    /\ Len(d) > 0 => d[Len(d)] # 0

\* Every well-formed vector of at most two digits, and the well-formed
\* vectors of at most MaxLen digits over the digits 0, 1, 5 and 9.
Operands ==
    {d \in UNION {[1..n -> Digit] : n \in 0..2} : WellFormed(d)}
    \cup {d \in UNION {[1..n -> {0, 1, 5, 9}] : n \in 0..MaxLen} : WellFormed(d)}

InitOps ==
    /\ ndebug \in BOOLEAN
    /\ aborted = FALSE
    /\ x \in Operands
    /\ y \in Operands
    /\ powers2 = NoMap
    /\ powers5 = NoMap
    /\ pc = "init"
    /\ args = <<>>
    /\ ret = <<>>
    /\ fpargs = <<>>
    /\ pending = <<>>

NextOps == (pc = "init" /\ AddAssign) \/ (pc = "init" /\ MulAssign)

SpecOps == InitOps /\ [][NextOps]_vars

(***************************************************************************)
(* static map<unsigned, Bigint> powers2, powers5;  power_of                *)
(*                                                                         *)
(* The two maps travel in a record st = [powers2, powers5, carry]; carry   *)
(* is TRUE once some normalise has met a nonzero carry at its assert.      *)
(***************************************************************************)

\* unsigned lowbit = n & -n;
RECURSIVE lowbit(_)
lowbit(n) == IF n = 0 THEN 0 ELSE IF n % 2 = 1 THEN 1 ELSE 2 * lowbit(n \div 2)

\* auto &powers = (v == 2 ? powers2 : powers5);
select(v, st) == IF v = 2 THEN st.powers2 ELSE st.powers5

\* powers[n] = a written as a fresh map holding n alone.
put_fresh(v, n, a, st) ==
    IF v = 2 THEN [st EXCEPT !.powers2 = [k \in {n} |-> a]]
             ELSE [st EXCEPT !.powers5 = [k \in {n} |-> a]]

\* powers[n] = a;   (on the map selected by v)
put(v, n, a, st) ==
    LET powers == select(v, st)
        stored == [k \in DOMAIN powers \cup {n} |-> IF k = n THEN a ELSE powers[k]]
    IN  IF v = 2 THEN [st EXCEPT !.powers2 = stored]
                 ELSE [st EXCEPT !.powers5 = stored]

\* The base case without the test on n: Bigint(v).
base_case_always_v(v, n) == Bigint(v, 0, 0)

\* powers[n] = Bigint(n == 1 ? v : 1);
base_case(v, n) == Bigint(IF n = 1 THEN v ELSE 1, 0, 0)

\* powers[n] = a;  where a is the product m just computed.
putProduct(v, n, m, st) ==
    put(v, n, m.digits, [st EXCEPT !.carry = @ \/ m.carry])

\* a *= b; powers[n] = a;
combine(v, n, ra, rb) == putProduct(v, n, operator_mul(ra.ret, rb.ret), rb.st)

\* return powers[n];
lookup(v, n, st) == [st |-> st, ret |-> select(v, st)[n]]

RECURSIVE power_of(_, _, _)
RECURSIVE split(_, _, _)
RECURSIVE square(_, _, _)

\* Bigint a = power_of(v, n - lowbit); Bigint b = power_of(v, lowbit);
splitSecond(v, n, ra) == combine(v, n, ra, power_of(v, lowbit(n), ra.st))

split(v, n, st) == splitSecond(v, n, power_of(v, n - lowbit(n), st))

\* Bigint a = power_of(v, n / 2); Bigint b = a;
squareOf(v, n, ra) == combine(v, n, ra, ra)

square(v, n, st) == squareOf(v, n, power_of(v, n \div 2, st))

\* static Bigint power_of(int v, unsigned n)
power_of(v, n, st) ==
    lookup(v, n,
           IF n \notin DOMAIN select(v, st)
           THEN IF n # lowbit(n) THEN split(v, n, st)
                ELSE IF n > 1 THEN square(v, n, st)
                ELSE put(v, n, base_case(v, n), st)
           ELSE st)

Caches == [powers2 |-> powers2, powers5 |-> powers5, carry |-> FALSE]

InitPow == InitBig

\* One call power_of(v, n) from outside any conversion.
PowerOf ==
    /\ ~aborted
    /\ \E v \in {2, 5}, n \in 0..MaxPow :
         \E r \in {power_of(v, n, Caches)} :
             /\ powers2' = r.st.powers2
             /\ powers5' = r.st.powers5
             /\ aborted' = (r.st.carry /\ ~ndebug)
             /\ pc' = "power_of"
             /\ args' = <<v, n>>
             /\ ret' = r.ret
    /\ UNCHANGED <<ndebug, x, y, fpargs, pending>>

NextPow == PowerOf

SpecPow == InitPow /\ [][NextPow]_vars

(***************************************************************************)
(* fp_btod: the conversion driver                                          *)
(***************************************************************************)

\* '0' + d, for the cell values a Bigint can hold after normalise.
Chr(d) == <<"0", "1", "2", "3", "4", "5", "6", "7", "8", "9">>[d + 1]

RECURSIVE DecDigits(_)
DecDigits(n) ==
    IF n < 10 THEN <<Chr(n)>> ELSE Append(DecDigits(n \div 10), Chr(n % 10))

\* sprintf(expstr, "e%03d", n): the sign only when negative.
sprintf_exp_no_plus(n) ==
    LET mag == DecDigits(IF n < 0 THEN -n ELSE n)
        wid == IF n < 0 THEN 2 ELSE 3
        pad == [k \in 1..(wid - Len(mag)) |-> "0"]
    IN  <<"e">> \o (IF n < 0 THEN <<"-">> ELSE <<>>) \o pad \o mag

\* sprintf(expstr, "e%+03d", n): a sign always, zero padding to width 3.
sprintf_exp(n) ==
    LET mag == DecDigits(IF n < 0 THEN -n ELSE n)
        pad == IF Len(mag) < 2 THEN <<"0">> ELSE <<>>
    IN  <<"e", IF n < 0 THEN "-" ELSE "+">> \o pad \o mag

NoOp(d) == [digits |-> d, carry |-> FALSE, wide |-> 0, stale |-> FALSE]

\* val *= p;  with the decimal exponent the branch leaves in power10.
scaled(val, p, power10) ==
    [st |-> p.st, m |-> operator_mul(val, p.ret), power10 |-> power10]

\* if (power2 > 0) val *= power_of(2, power2);
\* else if (power2 < 0) { val *= power_of(5, -power2); power10 += power2; }
scale(mantissa, power2, st) ==
    IF power2 > 0
    THEN scaled(Bigint(mantissa, 0, 0), power_of(2, power2, st), 0)
    ELSE IF power2 < 0
    THEN scaled(Bigint(mantissa, 0, 0), power_of(5, -power2, st), power2)
    ELSE [st |-> st, m |-> NoOp(Bigint(mantissa, 0, 0)), power10 |-> 0]

\* The rounding step, lines 143-150.
round(val, digitpos, precision) ==
    IF digitpos - precision >= 0 /\ digit(val, digitpos - precision) >= 5
    THEN IF digit(val, digitpos - precision + 1) % 2 = 1
         THEN operator_add(val, Bigint(5, digitpos - precision, 0))
         ELSE operator_add(val, Bigint(4, digitpos - precision, 9))
    ELSE NoOp(val)

\* The formatting step without the test for zero: power10 always printed.
format_always_power10(val, digitpos, precision, power10) ==
    <<Chr(digit(val, digitpos)), ".">>
    \o [i \in 1..(precision - 1) |-> Chr(digit(val, digitpos - i))]
    \o sprintf_exp(power10)

\* The formatting step, lines 152-160.
format(val, digitpos, precision, power10) ==
    <<Chr(digit(val, digitpos)), ".">>
    \o [i \in 1..(precision - 1) |-> Chr(digit(val, digitpos - i))]
    \o sprintf_exp(IF ndigits(val) = 0 THEN 0 ELSE power10)

\* return ret;  r is the outcome of the rounding step.
formatted(s, r, digitpos, precision) ==
    [st  |-> [s.st EXCEPT !.carry = @ \/ s.m.carry \/ r.carry],
     ret |-> format(r.digits, digitpos, precision, s.power10 + digitpos)]

\* int digitpos = val.ndigits() - 1; power10 += digitpos;
rounded(s, digitpos, precision) ==
    formatted(s, round(s.m.digits, digitpos, precision), digitpos, precision)

positioned(s, precision) == rounded(s, ndigits(s.m.digits) - 1, precision)

\* static string fp_btod(unsigned long long mantissa, int power2, int precision)
fp_btod(mantissa, power2, precision, st) ==
    positioned(scale(mantissa, power2, st), precision)

\* What a call leaves behind: the string, or nothing when an assert ended
\* the process.
Returned(r) == IF r.st.carry /\ ~ndebug THEN <<>> ELSE r.ret

\* The cache a conversion may find: empty, or filled by one earlier power_of.
WarmUp == pc = "init" /\ PowerOf

InitFp ==
    /\ ndebug \in BOOLEAN
    /\ aborted = FALSE
    /\ x = <<>>
    /\ y = <<>>
    /\ powers2 = NoMap
    /\ powers5 = NoMap
    /\ pc = "init"
    /\ args = <<>>
    /\ ret = <<>>
    /\ fpargs = <<>>
    /\ pending \in (0..MaxMant) \X ((-MaxExp)..MaxExp) \X (1..MaxPrec)

\* fp_btod(mantissa, power2, precision) on the pending arguments.
FpBtod ==
    /\ ~aborted
    /\ pc \in {"init", "power_of"}
    /\ \E r \in {fp_btod(pending[1], pending[2], pending[3], Caches)} :
         /\ powers2' = r.st.powers2
         /\ powers5' = r.st.powers5
         /\ aborted' = (r.st.carry /\ ~ndebug)
         /\ pc' = "fp_btod"
         /\ args' = pending
         /\ ret' = Returned(r)
    /\ UNCHANGED <<ndebug, x, y, fpargs, pending>>

NextFp == WarmUp \/ FpBtod

SpecFp == InitFp /\ [][NextFp]_vars

(***************************************************************************)
(* ieee_btod: the bit-pattern decoder                                      *)
(***************************************************************************)

\* val >> k
RECURSIVE shr(_, _)
shr(val, k) == IF k = 0 THEN val ELSE shr(val \div 2, k - 1)

\* val & ((1ULL << k) - 1)
lowbits(val, k) == val % Pow(2, k)

\* string ret = (val & (1ULL << (ebits + mbits)) ? "-" : " ");
sign_prefix(val, ebits, mbits) ==
    IF shr(val, ebits + mbits) % 2 = 1 THEN "-" ELSE " "

\* ret += val ? "NaN" : "Inf";
special(mant) == IF mant # 0 THEN <<"N", "a", "N">> ELSE <<"I", "n", "f">>

\* The decoder without the exp-- of the normal case.
decode_no_decrement(exp, mant, ebits, mbits) ==
    LET val1 == IF exp # 0 THEN mant + Pow(2, mbits) ELSE mant
    IN  <<val1, exp - (Pow(2, ebits - 1) - 2 + mbits)>>

\* if (exp) { val |= (1ULL << mbits); exp--; }
\* exp -= (1ULL << (ebits - 1)) - 2 + mbits;
\* (val is below 2^mbits here, so the or sets a clear bit)
decode(exp, mant, ebits, mbits) ==
    LET val1 == IF exp # 0 THEN mant + Pow(2, mbits) ELSE mant
        exp1 == IF exp # 0 THEN exp - 1 ELSE exp
    IN  <<val1, exp1 - (Pow(2, ebits - 1) - 2 + mbits)>>

\* ret += fp_btod(val, exp, digits); return ret;
prefixed(sgn, r, fp) == [st |-> r.st, ret |-> sgn \o r.ret, fpargs |-> fp]

finite(sgn, d, digits, st) ==
    prefixed(sgn, fp_btod(d[1], d[2], digits, st), <<d[1], d[2], digits>>)

\* string ieee_btod(unsigned long long val, int ebits, int mbits, int digits)
ieee_btod(val, ebits, mbits, digits, st) ==
    LET sgn  == <<sign_prefix(val, ebits, mbits)>>
        exp  == lowbits(shr(val, mbits), ebits)
        mant == lowbits(val, mbits)
    IN  IF exp = Pow(2, ebits) - 1
        THEN [st |-> st, ret |-> sgn \o special(mant), fpargs |-> <<>>]
        ELSE finite(sgn, decode(exp, mant, ebits, mbits), digits, st)

\* The formats decoded, and the bit patterns of a format; a pattern carries
\* one bit above the sign bit, which the decoder has to ignore.
Patterns(ebits, mbits) == 0..(Pow(2, ebits + mbits + 2) - 1)

InitIeee ==
    /\ ndebug \in BOOLEAN
    /\ aborted = FALSE
    /\ x = <<>>
    /\ y = <<>>
    /\ powers2 = NoMap
    /\ powers5 = NoMap
    /\ pc = "init"
    /\ args = <<>>
    /\ ret = <<>>
    /\ fpargs = <<>>
    /\ \E ebits \in 1..MaxEbits, mbits \in 1..MaxMbits, digits \in 1..MaxPrec :
         \E val \in Patterns(ebits, mbits) :
           pending = <<val, ebits, mbits, digits>>

\* ieee_btod(val, ebits, mbits, digits) on the pending arguments.
IeeeBtod ==
    /\ ~aborted
    /\ pc \in {"init", "power_of"}
    /\ \E r \in {ieee_btod(pending[1], pending[2], pending[3], pending[4], Caches)} :
         /\ powers2' = r.st.powers2
         /\ powers5' = r.st.powers5
         /\ aborted' = (r.st.carry /\ ~ndebug)
         /\ pc' = "ieee_btod"
         /\ args' = pending
         /\ ret' = Returned(r)
         /\ fpargs' = r.fpargs
    /\ UNCHANGED <<ndebug, x, y, pending>>

NextIeee == WarmUp \/ IeeeBtod

SpecIeee == InitIeee /\ [][NextIeee]_vars

(***************************************************************************)
(* Properties of the Bigint operations                                     *)
(***************************************************************************)

\* C7: for well-formed a and b of any lengths, a += b leaves a equal to the
\* exact sum a + b and the carry check at the end of normalise never fails.
C7_AddExact ==
    (pc = "add" /\ WellFormed(args[1]) /\ WellFormed(args[2]))
        => /\ ~ret.carry
           /\ Value(x) = Value(args[1]) + Value(args[2])

\* C8: for well-formed distinct a and b, a *= b leaves a equal to the exact
\* product; no original digit is read after it was overwritten, no cell is
\* asked to hold more than 255, and no normalise pass ends with a carry.
C8_MulExact ==
    (pc = "mul" /\ WellFormed(args[1]) /\ WellFormed(args[2]))
        => /\ Value(x) = Value(args[1]) * Value(args[2])
           /\ ~ret.stale
           /\ ret.wide < UCharMod
           /\ ~ret.carry

\* A product of two two-digit operands that fills four digits, with a cell
\* that held more than 9 * 9 on the way.
C8_Witness ==
    /\ pc = "mul"
    /\ args = << <<9, 9>>, <<9, 9>> >>
    /\ ret.wide > 81
    /\ x = <<1, 0, 8, 9>>

\* C9: after any sequence of constructions, += and *=, every stored digit is
\* in 0..9, the most significant stored digit is not 0, ndigits() is 0
\* exactly when the value is zero, and digit(i) is 0 outside 0..ndigits()-1.
C9_DigitInvariants ==
    \A d \in {x, y} :
        /\ WellFormed(d)
        /\ (ndigits(d) = 0) <=> (Value(d) = 0)
        /\ \A i \in (-2)..(Len(d) + 2) :
             (i < 0 \/ i >= ndigits(d)) => digit(d, i) = 0

(***************************************************************************)
(* Properties of power_of and the power cache                              *)
(***************************************************************************)

BaseOf(v) == IF v = 2 THEN powers2 ELSE powers5
BaseOfNext(v) == IF v = 2 THEN powers2' ELSE powers5'

\* The keys a call power_of(v, n) on an empty map asks for.
RECURSIVE SubCalls(_)
SubCalls(n) ==
    {n} \cup (IF n <= 1 THEN {}
              ELSE IF n = lowbit(n) THEN SubCalls(n \div 2)
              ELSE SubCalls(n - lowbit(n)) \cup SubCalls(lowbit(n)))

\* C6: power_of(base, n) returns base^n whatever the cache holds, every
\* entry under key n equals base^n, and so the entry under n is the entry
\* under n-1 times base.
C6_PowerOfExact ==
    /\ \A v \in {2, 5} : \A k \in DOMAIN BaseOf(v) :
         /\ WellFormed(BaseOf(v)[k])
         /\ Value(BaseOf(v)[k]) = Pow(v, k)
         /\ (k >= 1 /\ k - 1 \in DOMAIN BaseOf(v))
               => BaseOf(v)[k] = operator_mul(BaseOf(v)[k - 1], Bigint(v, 0, 0)).digits
    /\ pc = "power_of" => (~aborted /\ Value(ret) = Pow(args[1], args[2]))

\* 5^6 returned on a cache that already held 5^5 and some powers of 2.
C6_Witness ==
    /\ pc = "power_of"
    /\ args = <<5, 6>>
    /\ {5, 6} \subseteq DOMAIN powers5
    /\ 3 \in DOMAIN powers2
    /\ 0 \in DOMAIN powers2

\* C10: a call power_of(base, n) removes no key and changes no stored value;
\* it adds n and the keys of its sub-calls to the map of that base only, and
\* changes neither map when n is already present.
C10_AppendOnly ==
    [][LET v == args'[1]
           n == args'[2]
       IN  /\ \A k \in DOMAIN powers2 :
                k \in DOMAIN powers2' /\ powers2'[k] = powers2[k]
           /\ \A k \in DOMAIN powers5 :
                k \in DOMAIN powers5' /\ powers5'[k] = powers5[k]
           /\ n \in DOMAIN BaseOfNext(v)
           /\ DOMAIN BaseOfNext(v) \subseteq DOMAIN BaseOf(v) \cup SubCalls(n)
           /\ v = 2 => powers5' = powers5
           /\ v = 5 => powers2' = powers2
           /\ n \in DOMAIN BaseOf(v) => (powers2' = powers2 /\ powers5' = powers5)
      ]_vars

\* power_of(2, 6) has just added 6 to a map of base 2 that held 1, 2, 4,
\* beside a non-empty map of base 5.
C10_Witness ==
    /\ pc = "power_of"
    /\ args = <<2, 6>>
    /\ DOMAIN powers2 = {1, 2, 4, 6}
    /\ DOMAIN powers5 # {}

(***************************************************************************)
(* Properties of fp_btod                                                   *)
(***************************************************************************)

\* The number of decimal digits of n (0 for n = 0).
RECURSIVE NumDigits(_)
NumDigits(n) == IF n = 0 THEN 0 ELSE 1 + NumDigits(n \div 10)

\* The p decimal digits of q, most significant first, as characters.
RECURSIVE FixedDigits(_, _)
FixedDigits(q, p) ==
    IF p = 0 THEN <<>> ELSE Append(FixedDigits(q \div 10, p - 1), Chr(q % 10))

\* m * 2^e as N * 10^s with N an integer.
ExactN(m, e) == IF e >= 0 THEN m * Pow(2, e) ELSE m * Pow(5, -e)
ExactS(e) == IF e >= 0 THEN 0 ELSE e

\* N rounded to p significant digits, ties to even: the p-digit integer q
\* and the decimal exponent e10 of its leading digit (relative to N's units).
RoundHalfEven(N, p) ==
    LET D == NumDigits(N)
    IN  IF D <= p
        THEN [q |-> N * Pow(10, p - D), e10 |-> D - 1]
        ELSE LET k    == D - p
                 q0   == N \div Pow(10, k)
                 rem  == N % Pow(10, k)
                 half == 5 * Pow(10, k - 1)
                 up   == rem > half \/ (rem = half /\ q0 % 2 = 1)
                 q1   == IF up THEN q0 + 1 ELSE q0
             IN  IF q1 = Pow(10, p)
                 THEN [q |-> Pow(10, p - 1), e10 |-> D]
                 ELSE [q |-> q1, e10 |-> D - 1]

\* The rounding of N carries past the leading digit.
CarriesOut(N, p) ==
    NumDigits(N) > p /\ RoundHalfEven(N, p).e10 = NumDigits(N)

\* The string the contract asks of fp_btod(m, e, p).
Expected(m, e, p) ==
    LET N  == ExactN(m, e)
        r  == RoundHalfEven(N, p)
        ds == FixedDigits(r.q, p)
    IN  <<ds[1], ".">> \o SubSeq(ds, 2, p)
        \o (IF N = 0 THEN <<"e", "+", "0", "0">>
                     ELSE sprintf_exp(r.e10 + ExactS(e)))

\* C1: fp_btod(m, e, p) returns m * 2^e rounded to the nearest decimal of p
\* significant digits, ties to even, in scientific form, also when the
\* rounding carries past the leading digit.
C1_CorrectlyRounded ==
    pc = "fp_btod" => ret = Expected(args[1], args[2], args[3])

\* The same, for the inputs whose rounding does not carry past the leading
\* digit.
FpRoundedUnlessCarry ==
    pc = "fp_btod"
        => \/ CarriesOut(ExactN(args[1], args[2]), args[3])
           \/ ret = Expected(args[1], args[2], args[3])

\* fp_btod fails exactly on the inputs whose rounding carries past the
\* leading digit.
FpFailsOnlyOnCarry ==
    pc = "fp_btod"
        => (CarriesOut(ExactN(args[1], args[2]), args[3])
              <=> ret # Expected(args[1], args[2], args[3]))

(***************************************************************************)
(* Properties of ieee_btod                                                 *)
(***************************************************************************)

\* The fields of the pattern of the last ieee_btod call.
ArgSign == (args[1] \div Pow(2, args[2] + args[3])) % 2
ArgExp  == (args[1] \div Pow(2, args[3])) % Pow(2, args[2])
ArgMant == args[1] % Pow(2, args[3])
ArgBias == Pow(2, args[2] - 1) - 1
AllOnes == Pow(2, args[2]) - 1

DigitChars == {"0", "1", "2", "3", "4", "5", "6", "7", "8", "9"}

\* SIGN DIGIT '.' DIGIT{p-1} 'e' EXPSIGN EXPDIGITS, the exponent padded to
\* two digits and no further; or SIGN "NaN" / SIGN "Inf".
FiniteForm(b, p) ==
    /\ Len(b) >= p + 5
    /\ b[1] \in DigitChars
    /\ b[2] = "."
    /\ \A i \in 3..(p + 1) : b[i] \in DigitChars
    /\ b[p + 2] = "e"
    /\ b[p + 3] \in {"+", "-"}
    /\ \A i \in (p + 4)..Len(b) : b[i] \in DigitChars
    /\ Len(b) > p + 5 => b[p + 4] # "0"

\* C2: every call ieee_btod(bits, ebits, mbits, digits) with digits >= 1
\* runs to completion and returns a string; the carry check of normalise
\* is never violated.
C2_NeverAsserts ==
    pc = "ieee_btod" => (~aborted /\ ret # <<>>)

C4_Specials ==
    pc = "ieee_btod"
        => LET sgn == IF ArgSign = 1 THEN "-" ELSE " "
           IN  /\ (ArgExp = AllOnes /\ ArgMant # 0)
                     => (ret = <<sgn, "N", "a", "N">> /\ fpargs = <<>>)
               /\ (ArgExp = AllOnes /\ ArgMant = 0)
                     => (ret = <<sgn, "I", "n", "f">> /\ fpargs = <<>>)
               /\ (ArgExp = 0 /\ ArgMant = 0)
                     => ret = <<sgn, "0", ".">>
                              \o [i \in 1..(args[4] - 1) |-> "0"]
                              \o <<"e", "+", "0", "0">>
               /\ ArgExp # AllOnes => fpargs # <<>>

\* Negative zero of the format with a 4-bit exponent, to three digits.
C4_Witness ==
    /\ pc = "ieee_btod"
    /\ args[2] = 4
    /\ ret = <<"-", "0", ".", "0", "0", "e", "+", "0", "0">>

\* C5: for a finite pattern with fields E and M, fp_btod receives
\* (2^mbits + M, E - bias - mbits) when E # 0 and (M, 1 - bias - mbits)
\* when E = 0, with bias = 2^(ebits-1) - 1.
C5_Decoded ==
    (pc = "ieee_btod" /\ ArgExp # AllOnes)
        => fpargs = IF ArgExp # 0
                    THEN <<Pow(2, args[3]) + ArgMant,
                           ArgExp - ArgBias - args[3], args[4]>>
                    ELSE <<ArgMant, 1 - ArgBias - args[3], args[4]>>

\* The smallest normal number of a format: mantissa 2^mbits at the exponent
\* the subnormals use.
C5_Witness ==
    /\ pc = "ieee_btod"
    /\ ArgExp = 1
    /\ ArgMant = 0
    /\ args[2] = 3
    /\ args[3] = 1
    /\ fpargs[1] = 2
    /\ fpargs[2] = -3

====
